---- MODULE Spec2Model ----
(***************************************************************************)
(* Model of src/exploration/combine_raw_data.py: main(), the device        *)
(* pipeline save_aggregated_data() and the station pipeline                *)
(* combine_fmi_data().                                                     *)
(*                                                                         *)
(* Time is counted in ticks; one day is TicksPerDay ticks.  A table is a   *)
(* sequence of rows in the table's row order.  A metric value is NaN or a  *)
(* rational [n, d] in lowest terms, so that a mean is exact.               *)
(***************************************************************************)
EXTENDS Integers, Sequences, FiniteSets, TLC

\* ---------------------------------------------------------------- bounds
\* Largest number of rows of the raw device table.
MaxRows == 2
\* Largest number of records of the metadata table.
MaxMeta == 2
\* Largest timestamp (in ticks) of a raw reading.
MaxTime == 2
\* Largest number of rows of the station files together.
MaxFmiRows == 2
\* Largest number of rows of a raw table with readings of an unknown device C.
MaxScenarioRows == 4
\* Largest number of station files on a command line made of sample files.
MaxFiles == 3

\* Ticks in pd.Timedelta(days=1).
TicksPerDay == 2

\* Ticks by which the local time of a date string with a UTC offset is ahead of UTC.
TzOffset == 1

\* args.aggregate: the cadences (in ticks) a run is given; 3 does not divide a day.
Cadences == {1, 2, 3}

\* ---------------------------------------------------------------- values
\* A metric value is a rational n/d in lowest terms; d = 0 marks the null value.
NaN == [n |-> 0, d |-> 0]

\* The value of an install-date field of a metadata record:
\* null, a string pd.to_datetime() raises on, the empty string (parsed to NaT),
\* a date string (midnight of day number day), or a date string with a UTC
\* offset (midnight of day number day, local time).
NoDate == [kind |-> "nan", day |-> 0]
BadDate == [kind |-> "bad", day |-> 0]
EmptyDate == [kind |-> "empty", day |-> 0]
DateOf(d) == [kind |-> "date", day |-> d]
AwareDateOf(d) == [kind |-> "date_tz", day |-> d]
\* The value is a string pd.to_datetime() turns into a timestamp.
IsDate(v) == v.kind \in {"date", "date_tz"}
\* install_date = None
None == [kind |-> "none", day |-> 0]

\* The cutoff NaT: index >= NaT is False for every timestamp.
NaT == -1

\* Entity keys (device ids, station names) and their lexicographic rank.
DevIds == {"A", "B"}

\* combine_fmi_data: the stations kept.
stations_to_save ==
  {"Helsinki Kaisaniemi", "Helsinki Kumpula", "Helsinki Malmi lentokenttä",
   "Helsinki Harmaja", "Vantaa Helsinki-Vantaan lentoasema"}

\* The station names of the station files: two kept stations and another one.
FmiStations == {"Helsinki Kumpula", "Helsinki Kaisaniemi", "Espoo Tapiola"}

\* The rank of a key in the order of Python's string comparison.
KeyRank ==
  [k \in DevIds \cup stations_to_save \cup FmiStations |->
     CASE k = "A" -> 1
       [] k = "B" -> 2
       [] k = "Espoo Tapiola" -> 3
       [] k = "Helsinki Harmaja" -> 4
       [] k = "Helsinki Kaisaniemi" -> 5
       [] k = "Helsinki Kumpula" -> 6
       [] k = "Helsinki Malmi lentokenttä" -> 7
       [] k = "Vantaa Helsinki-Vantaan lentoasema" -> 8]

\* combine_fmi_data: the rows before "2024-05-01" are dropped (a midnight).
FmiEpoch == 2

Times == 0..MaxTime

Rat(n, d) == [n |-> n, d |-> d]

RECURSIVE GCD(_, _)
GCD(a, b) == IF b = 0 THEN a ELSE GCD(b, a % b)

Reduce(n, d) == LET g == GCD(n, d) IN Rat(n \div g, d \div g)

RatAdd(a, b) == Reduce(a.n * b.d + b.n * a.d, a.d * b.d)

RECURSIVE RatSum(_)
RatSum(s) == IF s = <<>> THEN Rat(0, 1) ELSE RatAdd(Head(s), RatSum(Tail(s)))

\* Series.mean() of the non-null values s: NaN when there is none.
Mean(s) ==
  IF s = <<>> THEN NaN
  ELSE LET t == RatSum(s) IN Reduce(t.n, t.d * Len(s))

\* The numerator n * 2^s of the smallest s >= 0 with n * 2^s / d >= 2^23.
RECURSIVE ScaledNum(_, _)
ScaledNum(n, d) == IF n >= 8388608 * d THEN n ELSE ScaledNum(2 * n, d)

\* astype("float32") of a value v, 0 <= v < 2^24: the nearest number with a
\* mantissa of 24 bits, ties to the even mantissa.
F32(v) ==
  IF v = NaN \/ v.n = 0 THEN v
  ELSE LET N == ScaledNum(v.n, v.d)
           q == N \div v.d
           r == N % v.d
           M == IF 2 * r > v.d \/ (2 * r = v.d /\ q % 2 = 1) THEN q + 1 ELSE q
       IN Reduce(M, N \div v.n)

\* A cell of an object column that holds the string s.
Text(s) == [text |-> s]
IsText(v) == "text" \in DOMAIN v

\* float(s) of the strings that parse as a number.
TextFloat == [s \in {"50"} |-> Rat(50, 1)]

\* astype("float32") raises ValueError on a string that is no number.
CanCast(v) == IsText(v) => v.text \in DOMAIN TextFloat

\* The number astype("float32") reads from a cell before rounding it.
ToFloat(v) == IF IsText(v) THEN TextFloat[v.text] ELSE v

\* ---------------------------------------------------------------- tables
SeqsUpTo(S, n) == UNION {[1..k -> S] : k \in 0..n}

Range(s) == {s[i] : i \in 1..Len(s)}

SetMin(S) == CHOOSE x \in S : \A y \in S : x <= y
SetMax(S) == CHOOSE x \in S : \A y \in S : x >= y

\* Series.unique(): the values of column key in order of first appearance.
RECURSIVE Unique(_, _)
Unique(rows, seen) ==
  IF rows = <<>> THEN <<>>
  ELSE IF Head(rows).key \in seen THEN Unique(Tail(rows), seen)
  ELSE <<Head(rows).key>> \o Unique(Tail(rows), seen \cup {Head(rows).key})

\* df[df[key] == k]
RowsOf(rows, k) == LET Test(r) == r.key = k IN SelectSeq(rows, Test)

\* pd.concat(list, axis=0)
RECURSIVE Concat(_)
Concat(list) == IF list = <<>> THEN <<>> ELSE Head(list) \o Concat(Tail(list))

\* index.is_monotonic_increasing
IsMonotonic(rows) == \A i \in 1..(Len(rows) - 1) : rows[i].time <= rows[i + 1].time

\* The sequences that hold exactly the positions in P, in every order.
RECURSIVE Perms(_)
Perms(P) ==
  IF P = {} THEN {<<>>}
  ELSE UNION {{<<p>> \o q : q \in Perms(P \ {p})} : p \in P}

\* The orders of the positions of rows that ascend by timestamp; positions with
\* equal timestamps come in every order (the sort is not stable).
RECURSIVE SortedOrders(_, _)
SortedOrders(rows, P) ==
  IF P = {} THEN {<<>>}
  ELSE LET m == SetMin({rows[p].time : p \in P})
           G == {p \in P : rows[p].time = m}
       IN UNION {{g \o rest : rest \in SortedOrders(rows, P \ G)} : g \in Perms(G)}

\* DataFrame.sort_index(): unchanged when the index is already monotonic,
\* else sorted by timestamp with ties in an unspecified order.
SortIndex(rows) ==
  IF IsMonotonic(rows) THEN {rows}
  ELSE {[i \in 1..Len(rows) |-> rows[o[i]]] : o \in SortedOrders(rows, 1..Len(rows))}

\* ---------------------------------------------------------------- resample
\* origin='start_day': midnight of the day of the first timestamp.
StartDay(t) == (t \div TicksPerDay) * TicksPerDay

FirstTime(rows) == SetMin({rows[i].time : i \in 1..Len(rows)})
LastTime(rows) == SetMax({rows[i].time : i \in 1..Len(rows)})

\* FirstEdge with origin='start': the grid starts at the first timestamp.
FirstEdge_Start(rows, W) == FirstTime(rows)

\* The first bin edge (closed='left'): the first timestamp moved back onto the grid.
FirstEdge(rows, W) ==
  LET first == FirstTime(rows)
  IN first - ((first - StartDay(first)) % W)

\* The last bin edge (closed='left'): strictly after the last timestamp.
LastEdge(rows, W) ==
  LET last == LastTime(rows)
      loffset == (last - StartDay(FirstTime(rows))) % W
  IN IF loffset > 0 THEN last + (W - loffset) ELSE last + W

\* The rows of the bin [lo, lo + W): closed on the left, open on the right.
InBin(rows, lo, W) ==
  LET Test(r) == lo <= r.time /\ r.time < lo + W IN SelectSeq(rows, Test)

\* The non-null values of column c.
RECURSIVE NonNull(_, _)
NonNull(rows, c) ==
  IF rows = <<>> THEN <<>>
  ELSE IF Head(rows).vals[c] = NaN THEN NonNull(Tail(rows), c)
  ELSE <<Head(rows).vals[c]>> \o NonNull(Tail(rows), c)

\* data[cols].resample(W, label=...).mean() of a non-empty table: one row per bin
\* from the first to the last edge, empty bins included, labeled with the right
\* edge of the bin when right, else with the left edge.
Resample(rows, cols, W, right) ==
  LET lo0 == FirstEdge(rows, W)
      nb == (LastEdge(rows, W) - lo0) \div W
  IN [k \in 1..nb |->
        LET lo == lo0 + (k - 1) * W
        IN [time |-> IF right THEN lo + W ELSE lo,
            vals |-> [c \in cols |-> Mean(NonNull(InBin(rows, lo, W), c))]]]

\* DropNa with how="any": drop the rows with a null in one of the columns cols.
DropNa_Any(rows, cols) ==
  LET Test(r) == \A c \in cols : r.vals[c] # NaN IN SelectSeq(rows, Test)

\* dropna(how="all", subset=cols): drop the rows whose columns cols are all null.
DropNa(rows, cols) ==
  LET Test(r) == \E c \in cols : r.vals[c] # NaN IN SelectSeq(rows, Test)

\* resampled["dev-id"] = device_id
WithKey(rows, k) ==
  [i \in 1..Len(rows) |-> [key |-> k, time |-> rows[i].time, vals |-> rows[i].vals]]

\* ResampleDeviceRows with the selection of the device's rows left out.
ResampleDeviceRows_AllRows(filtered, device_id, cols, W) ==
  DropNa(WithKey(Resample(filtered, cols, W, TRUE), device_id), cols)

\* One iteration of the device loop: the resampled rows of device_id.
ResampleDeviceRows(filtered, device_id, cols, W) ==
  DropNa(WithKey(Resample(RowsOf(filtered, device_id), cols, W, TRUE), device_id), cols)

\* ResampleStationRows with the last fmisid of the station instead of the first.
ResampleStationRows_LastId(data, station, cols, W, numeric_fmisid) ==
  LET station_data == RowsOf(data, station)
      resampled == Resample(station_data, cols, W, FALSE)
      with_ids == [k \in 1..Len(resampled) |->
                     [key |-> station, time |-> resampled[k].time,
                      fmisid |-> station_data[Len(station_data)].fmisid,
                      vals |-> resampled[k].vals]]
  IN IF numeric_fmisid THEN with_ids ELSE DropNa(with_ids, cols)

\* One iteration of the station loop: the resampled rows of station, labeled by
\* default (the left edge), with the first fmisid of the station; a numeric
\* fmisid is one of the columns dropna() looks at.
ResampleStationRows(data, station, cols, W, numeric_fmisid) ==
  LET station_data == RowsOf(data, station)
      resampled == Resample(station_data, cols, W, FALSE)
      with_ids == [k \in 1..Len(resampled) |->
                     [key |-> station, time |-> resampled[k].time,
                      fmisid |-> station_data[1].fmisid, vals |-> resampled[k].vals]]
  IN IF numeric_fmisid THEN with_ids ELSE DropNa(with_ids, cols)

\* The device loop and pd.concat (lines 172-191): the resampled rows of every
\* device, device after device in the order of first appearance.
AggregateAll(rows, cols, W) ==
  LET devices == Unique(rows, {})
  IN Concat([k \in 1..Len(devices) |-> ResampleDeviceRows(rows, devices[k], cols, W)])

\* The station loop and pd.concat (lines 277-298).
AggregateFmiAll(rows, cols, W, numeric_fmisid) ==
  LET stations == Unique(rows, {})
  IN Concat([k \in 1..Len(stations) |->
               ResampleStationRows(rows, stations[k], cols, W, numeric_fmisid)])

\* ---------------------------------------------------------------- metadata
\* A dict, in insertion order: a sequence of [key, val].
DictHas(d, k) == \E i \in 1..Len(d) : d[i].key = k
DictGet(d, k) == d[CHOOSE i \in 1..Len(d) : d[i].key = k].val
DictSet(d, k, v) ==
  IF DictHas(d, k)
  THEN [i \in 1..Len(d) |-> IF d[i].key = k THEN [key |-> k, val |-> v] ELSE d[i]]
  ELSE Append(d, [key |-> k, val |-> v])

\* The install date of a record: Date_installed when not null, else Asennettu_pvm.
InstallDate(row) ==
  IF row.Date_installed # NoDate THEN row.Date_installed
  ELSE IF row.Asennettu_pvm # NoDate THEN row.Asennettu_pvm
  ELSE None

\* The instant of pd.to_datetime(install_date) + pd.Timedelta(days=1): in ticks
\* of UTC when the string has an offset, else in ticks of its wall clock, which
\* tz_localize("UTC") reads as UTC.  tz_convert does not move an instant.
CutoffDate(install_date) ==
  IF install_date.kind = "empty" THEN NaT
  ELSE IF install_date.kind = "date_tz"
       THEN install_date.day * TicksPerDay + TicksPerDay - TzOffset
       ELSE install_date.day * TicksPerDay + TicksPerDay

\* cutoff_date.tz after lines 99-105: with a timezone-aware index a naive cutoff
\* is localized to UTC and an aware one converted to the timezone of the index;
\* with a naive index the cutoff is left as parsed.  NaT has no timezone.
CutoffTz(install_date, tz) ==
  IF install_date.kind = "empty" THEN "NaT"
  ELSE IF tz # "naive"
       THEN IF install_date.kind = "date" THEN "UTC" ELSE tz
       ELSE IF install_date.kind = "date" THEN "naive" ELSE "offset"

\* filtered_df.index >= cutoff_date raises TypeError between a timezone-aware
\* and a naive operand; NaT compares with both.
Comparable(cutoff_tz, tz) == cutoff_tz = "NaT" \/ ((cutoff_tz = "naive") <=> (tz = "naive"))

\* The loop over gdf.iterrows(): a record with a date sets the cutoff of its id;
\* a record without a date, or whose date does not parse, sets nothing.
RECURSIVE ParseInstallDates(_, _)
ParseInstallDates(rows, dates) ==
  IF rows = <<>> THEN dates
  ELSE LET row == Head(rows)
           install_date == InstallDate(row)
       IN IF install_date.kind \in {"date", "date_tz", "empty"}
          THEN ParseInstallDates(Tail(rows), DictSet(dates, row.id, CutoffDate(install_date)))
          ELSE ParseInstallDates(Tail(rows), dates)

\* The timezones of the cutoffs the loop over gdf.iterrows() stores.
RECURSIVE ParseInstallTz(_, _, _)
ParseInstallTz(rows, tzs, tz) ==
  IF rows = <<>> THEN tzs
  ELSE LET row == Head(rows)
           install_date == InstallDate(row)
       IN IF install_date.kind \in {"date", "date_tz", "empty"}
          THEN ParseInstallTz(Tail(rows), DictSet(tzs, row.id, CutoffTz(install_date, tz)), tz)
          ELSE ParseInstallTz(Tail(rows), tzs, tz)

\* filtered_df.index >= cutoff_date
AtOrAfter(t, cutoff) == cutoff # NaT /\ t >= cutoff

\* WindowPassRows with the cutoff at the install date instead of the day after.
WindowPassRows_InstallDay(rows, device_id, cutoff_date) ==
  LET Test(r) == r.key # device_id
                 \/ (cutoff_date # NaT /\ r.time >= cutoff_date - TicksPerDay)
  IN SelectSeq(rows, Test)

\* WindowPassRows with the cutoff of one device applied to the rows of all.
WindowPassRows_AllDevices(rows, device_id, cutoff_date) ==
  LET Test(r) == AtOrAfter(r.time, cutoff_date) IN SelectSeq(rows, Test)

\* One pass of the window filter: keep the rows of other devices and the rows
\* at or after the cutoff.
WindowPassRows(rows, device_id, cutoff_date) ==
  LET Test(r) == r.key # device_id \/ AtOrAfter(r.time, cutoff_date)
  IN SelectSeq(rows, Test)

\* FilterDevicesRows with the restriction to the metadata ids left out.
FilterDevicesRows_All(rows, valid) == rows

\* df[df["dev-id"].isin(valid_device_ids)]
FilterDevicesRows(rows, valid) ==
  LET Test(r) == r.key \in valid IN SelectSeq(rows, Test)

\* SortedKeys in descending order.
RECURSIVE SortedKeys_Desc(_)
SortedKeys_Desc(S) ==
  IF S = {} THEN <<>>
  ELSE LET k == CHOOSE x \in S : \A y \in S : KeyRank[x] >= KeyRank[y]
       IN <<k>> \o SortedKeys_Desc(S \ {k})

\* sorted(list(ids))
RECURSIVE SortedKeys(_)
SortedKeys(S) ==
  IF S = {} THEN <<>>
  ELSE LET k == CHOOSE x \in S : \A y \in S : KeyRank[x] <= KeyRank[y]
       IN <<k>> \o SortedKeys(S \ {k})

\* ---------------------------------------------------------------- state
VARIABLES
  args,                  \* the parsed command line: which pairs are given, the
                         \* cadence, the output paths of the raw and the station table
  schema,                \* whether df has the column dev-id, gdf the column id and
                         \* the station files the column Station
  gdf,                   \* the metadata table combine_geojson returns
  df,                    \* the raw readings table combine_parquet returns
  index_tz,              \* df.index.tz: "naive" for None, else the name of the timezone
  columns,               \* the numeric metric columns of df
  pc,                    \* the position of the run
  i,                     \* the iterations done of the loop in progress
  device_install_dates,  \* dict device id -> cutoff
  cutoff_tz,             \* dict device id -> the timezone of its cutoff
  valid_device_ids,
  retained_pct,          \* the retained fraction printed, in tenths of a percent
  filtered_df,
  aggregated_list,
  aggregated_df,
  parquet_agg,           \* the content of the aggregated device artifact
  written,               \* the output paths written so far
  fname_agg,             \* the paths derived for the aggregates, of main and of
                         \* combine_fmi_data
  error,                 \* the exception that ended the run, if any
  fmi_in,                \* the station files, in the order of the command line
  fmisid_numeric,        \* whether the column fmisid of the station files is numeric
  fmi_dtypes,            \* the columns of the station files and their dtypes
  fmi_df,                \* combine_fmi_data: df
  fmi_list,              \* combine_fmi_data: aggregated_list
  df_agg,
  fmi_out,               \* the content of the filtered station artifact
  fmi_out_dtypes,        \* the columns of the filtered station artifact and their dtypes
  fmi_agg                \* the content of the aggregated station artifact

vars == <<args, schema, gdf, df, index_tz, columns, pc, i, device_install_dates,
          cutoff_tz, valid_device_ids, retained_pct,
          filtered_df, aggregated_list, aggregated_df, parquet_agg, written, fname_agg,
          error,
          fmi_in, fmisid_numeric, fmi_dtypes, fmi_df, fmi_list, df_agg, fmi_out,
          fmi_out_dtypes, fmi_agg>>

\* The inputs, the locals of save_aggregated_data, the locals of combine_fmi_data.
inputs == <<args, schema, gdf, df, index_tz, columns, fmi_in, fmisid_numeric,
            fmi_dtypes>>
dev_locals == <<device_install_dates, cutoff_tz, valid_device_ids, retained_pct, filtered_df, aggregated_list,
                aggregated_df, parquet_agg>>
fmi_locals == <<fmi_df, fmi_list, df_agg, fmi_out, fmi_out_dtypes, fmi_agg>>

\* ---------------------------------------------------------------- paths
\* A path: the parent directory and the file name as its parts between dots; a
\* part is a text followed by the cadences appended to it with "_".
PathOf(parent, texts) ==
  [parent |-> parent, name |-> [k \in 1..Len(texts) |-> [text |-> texts[k], tag |-> <<>>]]]

\* No path derived yet.
NoPath == [parent |-> "", name |-> <<>>]

\* Path.stem: the name without its last part, when it has more than one.
Stem(p) == IF Len(p.name) > 1 THEN SubSeq(p.name, 1, Len(p.name) - 1) ELSE p.name

\* Path.suffix: the last part of the name, when it has more than one.
Suffix(p) == IF Len(p.name) > 1 THEN <<p.name[Len(p.name)]>> ELSE <<>>

\* The parts with "_" and the cadence appended to the last one.
Tagged(parts, cadence) ==
  [k \in 1..Len(parts) |->
     IF k = Len(parts) THEN [parts[k] EXCEPT !.tag = Append(@, cadence)] ELSE parts[k]]

\* AggPath with the cadence appended to the whole name, after the suffix.
AggPath_AfterSuffix(p, cadence) ==
  [parent |-> p.parent, name |-> Tagged(p.name, cadence)]

\* f"{p.parent}/{p.stem}_{cadence}{p.suffix}"
AggPath(p, cadence) ==
  [parent |-> p.parent, name |-> Tagged(Stem(p), cadence) \o Suffix(p)]

\* --parquet-out and --fmi-out of the runs that do not vary them.
DataPath == PathOf("data/interim", <<"data", "parquet">>)
FmiPath == PathOf("data/interim", <<"fmi", "parquet">>)

\* Output paths: in the working directory or below it, without an extension,
\* with one, with two.
Paths ==
  {PathOf(parent, texts) :
     parent \in {".", "data/interim"},
     texts \in {<<"data">>, <<"data", "parquet">>, <<"data", "tar", "gz">>}}

\* ---------------------------------------------------------------- inputs
\* Every table has the columns the pipelines read.
AllColumns == [dev_id |-> TRUE, id |-> TRUE, Station |-> TRUE]

Metrics == {"temperature", "humidity"}

\* The metric values a raw row is drawn from: all null, temperature alone, both.
RowVals ==
  {[temperature |-> NaN, humidity |-> NaN],
   [temperature |-> Rat(10, 1), humidity |-> NaN],
   [temperature |-> Rat(20, 1), humidity |-> Rat(50, 1)]}

\* The rows of a raw table with the numeric columns cols.
RawRows(cols) ==
  IF cols = {} THEN [key : DevIds, time : Times, vals : {<<>>}]
  ELSE [key : DevIds, time : Times, vals : RowVals]

MetaRecords ==
  [id : DevIds,
   Date_installed : {NoDate, BadDate, DateOf(0)},
   Asennettu_pvm : {NoDate, EmptyDate, DateOf(1)}]

\* A raw table with one reading of every device at every time, B before A:
\* A reads 10 and 20 in turn, B reads 20 and has no humidity.
GridRows ==
  [k \in 1..(2 * (MaxTime + 1)) |->
     LET t == (k - 1) \div 2
     IN IF k % 2 = 1
        THEN [key |-> "B", time |-> t,
              vals |-> [temperature |-> Rat(20, 1), humidity |-> NaN]]
        ELSE [key |-> "A", time |-> t,
              vals |-> [temperature |-> Rat(10 + 10 * (t % 2), 1),
                        humidity |-> Rat(50, 1)]]]

\* A metadata table that knows every device and gives none a date.
AllKnown ==
  <<[id |-> "A", Date_installed |-> NoDate, Asennettu_pvm |-> NoDate],
    [id |-> "B", Date_installed |-> NoDate, Asennettu_pvm |-> NoDate]>>

\* The columns of the station files: the station name, the station id, numeric
\* or not, and the weather metrics, all of the dtype metric_dtype.
FileDtypes(numeric_fmisid, metric_dtype) ==
  [c \in {"Station", "fmisid"} \cup Metrics |->
     IF c = "Station" THEN "object"
     ELSE IF c = "fmisid" THEN (IF numeric_fmisid THEN "int64" ELSE "object")
     ELSE metric_dtype]

\* The times of the station rows: from the day before the epoch on.
FmiTimes == (FmiEpoch - 1)..(FmiEpoch + 2)

\* The rows of the station files: a row without values, a row with values.
FmiRows ==
  [key : FmiStations, time : FmiTimes, fmisid : {101},
   vals : {[temperature |-> NaN, humidity |-> NaN]}]
  \cup
  [key : FmiStations, time : FmiTimes, fmisid : {102},
   vals : {[temperature |-> Rat(10, 1), humidity |-> Rat(50, 1)]}]

\* The rows in two files when there are two rows or more, else in one.
SplitFiles(rows) ==
  IF Len(rows) <= 1 THEN <<rows>>
  ELSE <<SubSeq(rows, 1, 1), SubSeq(rows, 2, Len(rows))>>

\* Two station files for the runs of both pipelines.
FmiSample ==
  <<<<[key |-> "Helsinki Kumpula", time |-> FmiEpoch + 1, fmisid |-> 101,
       vals |-> [temperature |-> Rat(10, 1), humidity |-> Rat(50, 1)]]>>,
    <<[key |-> "Helsinki Kaisaniemi", time |-> FmiEpoch, fmisid |-> 102,
       vals |-> [temperature |-> Rat(20, 1), humidity |-> NaN]]>>>>

InitLocals ==
  /\ pc = "main"
  /\ fmi_df = <<>>
  /\ fmi_list = <<>>
  /\ df_agg = <<>>
  /\ fmi_out = <<>>
  /\ fmi_out_dtypes = <<>>
  /\ fmi_agg = <<>>
  /\ i = 0
  /\ device_install_dates = <<>>
  /\ cutoff_tz = <<>>
  /\ valid_device_ids = {}
  /\ retained_pct = 0
  /\ filtered_df = <<>>
  /\ aggregated_list = <<>>
  /\ aggregated_df = <<>>
  /\ parquet_agg = [rows |-> <<>>, dtypes |-> <<>>, categories |-> <<>>, ordered |-> FALSE]
  /\ written = {}
  /\ fname_agg = [main |-> NoPath, fmi |-> NoPath]
  /\ error = "none"

\* Runs on every metadata table, over the raw table GridRows.
InitMeta ==
  /\ args \in [geojson : {TRUE}, parquet : {TRUE}, fmi : {FALSE}, aggregate : Cadences,
                parquet_out : {DataPath}, fmi_out : {FmiPath}]
  /\ index_tz = "UTC"
  /\ schema = AllColumns
  /\ gdf \in SeqsUpTo(MetaRecords, MaxMeta)
  /\ df = GridRows
  /\ columns = Metrics
  /\ fmi_in = <<>>
  /\ fmisid_numeric = FALSE
  /\ fmi_dtypes = FileDtypes(fmisid_numeric, "float64")

\* Runs on every raw table, with and without numeric columns, all devices known.
InitRaw ==
  /\ args \in [geojson : {TRUE}, parquet : {TRUE}, fmi : {FALSE}, aggregate : Cadences,
                parquet_out : {DataPath}, fmi_out : {FmiPath}]
  /\ index_tz = "UTC"
  /\ schema = AllColumns
  /\ gdf = AllKnown
  /\ columns \in {{}, Metrics}
  /\ df \in SeqsUpTo(RawRows(columns), MaxRows)
  /\ fmi_in = <<>>
  /\ fmisid_numeric = FALSE
  /\ fmi_dtypes = FileDtypes(fmisid_numeric, "float64")

\* Runs of the station pipeline alone, on every station table.
InitFmi ==
  /\ args \in [geojson : {TRUE}, parquet : {FALSE}, fmi : {TRUE}, aggregate : {1, 2},
                parquet_out : {DataPath}, fmi_out : {FmiPath}]
  /\ index_tz = "UTC"
  /\ schema = AllColumns
  /\ gdf = AllKnown
  /\ df = <<>>
  /\ columns = {}
  /\ \E rows \in SeqsUpTo(FmiRows, MaxFmiRows) : fmi_in = SplitFiles(rows)
  /\ fmisid_numeric \in BOOLEAN
  /\ fmi_dtypes = FileDtypes(fmisid_numeric, "float64")

\* Runs of both pipelines, one after the other.
InitBoth ==
  /\ args \in [geojson : {TRUE}, parquet : {TRUE}, fmi : {TRUE}, aggregate : Cadences,
                parquet_out : {DataPath}, fmi_out : {FmiPath}]
  /\ index_tz = "UTC"
  /\ schema = AllColumns
  /\ gdf = AllKnown
  /\ df = GridRows
  /\ columns = Metrics
  /\ fmi_in = FmiSample
  /\ fmisid_numeric \in BOOLEAN
  /\ fmi_dtypes = FileDtypes(fmisid_numeric, "float64")

\* Runs on tables that lack a required column, empty or not.
InitSchema ==
  /\ args \in [geojson : {TRUE}, parquet : {TRUE}, fmi : {FALSE}, aggregate : {1},
                parquet_out : {DataPath}, fmi_out : {FmiPath}]
  /\ index_tz = "UTC"
  /\ schema \in [dev_id : BOOLEAN, id : BOOLEAN, Station : {TRUE}] \ {AllColumns}
  /\ gdf = AllKnown
  /\ df \in {<<>>, GridRows}
  /\ columns = Metrics
  /\ fmi_in = <<>>
  /\ fmisid_numeric = FALSE
  /\ fmi_dtypes = FileDtypes(fmisid_numeric, "float64")

\* The rows of a raw table with the numeric columns temperature and pressure.
PressureRows ==
  [key : DevIds, time : Times,
   vals : {[temperature |-> Rat(10, 1), pressure |-> Rat(1013, 1)],
           [temperature |-> Rat(11, 1), pressure |-> NaN],
           [temperature |-> Rat(11, 1), pressure |-> Rat(1014, 1)]}]

\* Runs on raw tables with a numeric column of another name.
InitCols ==
  /\ args \in [geojson : {TRUE}, parquet : {TRUE}, fmi : {FALSE}, aggregate : {3},
                parquet_out : {DataPath}, fmi_out : {FmiPath}]
  /\ index_tz = "UTC"
  /\ schema = AllColumns
  /\ gdf = AllKnown
  /\ columns = {"temperature", "pressure"}
  /\ df \in SeqsUpTo(PressureRows, MaxRows)
  /\ fmi_in = <<>>
  /\ fmisid_numeric = FALSE
  /\ fmi_dtypes = FileDtypes(fmisid_numeric, "float64")

\* Three station files: a kept station and another one after the epoch; a kept
\* station before and at the epoch; a kept station at the epoch.
FmiFiles ==
  {<<[key |-> "Helsinki Kumpula", time |-> FmiEpoch + 1, fmisid |-> 101,
      vals |-> [temperature |-> Rat(10, 1), humidity |-> Rat(50, 1)]],
     [key |-> "Espoo Tapiola", time |-> FmiEpoch + 1, fmisid |-> 103,
      vals |-> [temperature |-> Rat(20, 1), humidity |-> Rat(50, 1)]]>>,
   <<[key |-> "Helsinki Kaisaniemi", time |-> FmiEpoch - 1, fmisid |-> 102,
      vals |-> [temperature |-> Rat(20, 1), humidity |-> NaN]],
     [key |-> "Helsinki Kaisaniemi", time |-> FmiEpoch, fmisid |-> 102,
      vals |-> [temperature |-> Rat(10, 1), humidity |-> NaN]]>>,
   <<[key |-> "Helsinki Kumpula", time |-> FmiEpoch, fmisid |-> 101,
      vals |-> [temperature |-> Rat(20, 1), humidity |-> Rat(50, 1)]]>>}

\* Runs of the station pipeline on one file or more, in every order, a file
\* given more than once included.
InitFiles ==
  /\ args \in [geojson : {TRUE}, parquet : {FALSE}, fmi : {TRUE}, aggregate : Cadences,
                parquet_out : {DataPath}, fmi_out : {FmiPath}]
  /\ index_tz = "UTC"
  /\ schema = AllColumns
  /\ gdf = AllKnown
  /\ df = <<>>
  /\ columns = {}
  /\ fmi_in \in SeqsUpTo(FmiFiles, MaxFiles) \ {<<>>}
  /\ fmisid_numeric = FALSE
  /\ fmi_dtypes = FileDtypes(fmisid_numeric, "float64")

\* A metadata table whose cutoffs are after every reading of GridRows.
AllLate ==
  <<[id |-> "A", Date_installed |-> DateOf(MaxTime), Asennettu_pvm |-> NoDate],
    [id |-> "B", Date_installed |-> NoDate, Asennettu_pvm |-> DateOf(MaxTime)]>>

\* A station file whose rows are all before the epoch or of another station.
FmiNothingKept ==
  <<<<[key |-> "Helsinki Kumpula", time |-> FmiEpoch - 1, fmisid |-> 101,
       vals |-> [temperature |-> Rat(10, 1), humidity |-> Rat(50, 1)]],
      [key |-> "Espoo Tapiola", time |-> FmiEpoch, fmisid |-> 103,
       vals |-> [temperature |-> Rat(20, 1), humidity |-> NaN]]>>>>

\* Runs of both pipelines on inputs of which the filters keep nothing.
InitEmpty ==
  /\ args \in [geojson : {TRUE}, parquet : {TRUE}, fmi : {TRUE}, aggregate : Cadences,
                parquet_out : {DataPath}, fmi_out : {FmiPath}]
  /\ index_tz = "UTC"
  /\ schema = AllColumns
  /\ gdf = AllLate
  /\ df = GridRows
  /\ columns \in {{}, Metrics}
  /\ fmi_in = FmiNothingKept
  /\ fmisid_numeric \in BOOLEAN
  /\ fmi_dtypes = FileDtypes(fmisid_numeric, "float64")

\* Runs on every combination of input/output pairs, with a cadence that is a
\* frequency (1) or not (0), with station files with and without the column
\* Station; a table that is not combined is empty.
InitFaults ==
  /\ args \in [geojson : BOOLEAN, parquet : BOOLEAN, fmi : BOOLEAN, aggregate : {0, 1},
                parquet_out : {DataPath}, fmi_out : {FmiPath}]
  /\ index_tz = "UTC"
  /\ schema \in [dev_id : {TRUE}, id : {TRUE}, Station : BOOLEAN]
  /\ gdf = IF args.geojson THEN AllKnown ELSE <<>>
  /\ df = IF args.parquet THEN GridRows ELSE <<>>
  /\ columns = IF args.parquet THEN Metrics ELSE {}
  /\ fmi_in = IF args.fmi THEN FmiSample ELSE <<>>
  /\ fmisid_numeric = FALSE
  /\ fmi_dtypes = FileDtypes(fmisid_numeric, "float64")

\* Readings of the known devices A and B and of the unknown device C.
ScenarioRows ==
  [key : DevIds \cup {"C"}, time : {0, 1},
   vals : {[temperature |-> Rat(10, 1), humidity |-> Rat(50, 1)]}]

\* Runs on raw tables with readings of an unknown device, all of A and B known.
InitScenario ==
  /\ args \in [geojson : {TRUE}, parquet : {TRUE}, fmi : {FALSE}, aggregate : {1},
                parquet_out : {DataPath}, fmi_out : {FmiPath}]
  /\ index_tz = "UTC"
  /\ schema = AllColumns
  /\ gdf = AllKnown
  /\ df \in SeqsUpTo(ScenarioRows, MaxScenarioRows)
  /\ columns = Metrics
  /\ fmi_in = <<>>
  /\ fmisid_numeric = FALSE
  /\ fmi_dtypes = FileDtypes(fmisid_numeric, "float64")

\* Runs of both pipelines on every pair of output paths.
InitPaths ==
  /\ args \in [geojson : {TRUE}, parquet : {TRUE}, fmi : {TRUE}, aggregate : Cadences,
                parquet_out : Paths, fmi_out : Paths]
  /\ index_tz = "UTC"
  /\ schema = AllColumns
  /\ gdf = AllKnown
  /\ df = GridRows
  /\ columns = Metrics
  /\ fmi_in = FmiSample
  /\ fmisid_numeric = FALSE
  /\ fmi_dtypes = FileDtypes(fmisid_numeric, "float64")

\* Runs of the station pipeline on files with float64 and with float32 metrics.
InitDtypes ==
  /\ args \in [geojson : {TRUE}, parquet : {FALSE}, fmi : {TRUE}, aggregate : {1},
                parquet_out : {DataPath}, fmi_out : {FmiPath}]
  /\ index_tz = "UTC"
  /\ schema = AllColumns
  /\ gdf = AllKnown
  /\ df = <<>>
  /\ columns = {}
  /\ fmi_in \in {FmiSample, FmiNothingKept}
  /\ fmisid_numeric \in BOOLEAN
  /\ \E metric_dtype \in {"float64", "float32"} :
       fmi_dtypes = FileDtypes(fmisid_numeric, metric_dtype)

\* Metadata records with a date string without and with a UTC offset.
TzRecords ==
  [id : DevIds, Date_installed : {DateOf(0), AwareDateOf(0)}, Asennettu_pvm : {NoDate}]

\* Runs on raw tables with a naive index, a UTC index and an index in another
\* timezone, over GridRows.
InitTz ==
  /\ args \in [geojson : {TRUE}, parquet : {TRUE}, fmi : {FALSE}, aggregate : {1},
                parquet_out : {DataPath}, fmi_out : {FmiPath}]
  /\ index_tz \in {"naive", "UTC", "Europe/Helsinki"}
  /\ schema = AllColumns
  /\ gdf \in SeqsUpTo(TzRecords, MaxMeta)
  /\ df = GridRows
  /\ columns = Metrics
  /\ fmi_in = <<>>
  /\ fmisid_numeric = FALSE
  /\ fmi_dtypes = FileDtypes(fmisid_numeric, "float64")

\* The rows of a raw table whose columns besides dev-id are of object dtype: a
\* humidity column of strings, numbers or not, and a column of remarks.
TextRows ==
  [key : DevIds, time : Times,
   vals : {[humidity |-> Text("50"), note |-> Text("ok")],
           [humidity |-> Text("n/a"), note |-> Text("ok")]}]

\* Runs on raw tables without a numeric column.
InitText ==
  /\ args \in [geojson : {TRUE}, parquet : {TRUE}, fmi : {FALSE}, aggregate : {1},
                parquet_out : {DataPath}, fmi_out : {FmiPath}]
  /\ index_tz = "UTC"
  /\ schema = AllColumns
  /\ gdf \in {AllKnown, AllLate}
  /\ columns = {}
  /\ df \in SeqsUpTo(TextRows, MaxRows)
  /\ fmi_in = <<>>
  /\ fmisid_numeric = FALSE
  /\ fmi_dtypes = FileDtypes(fmisid_numeric, "float64")

Init ==
  InitLocals /\ (InitMeta \/ InitRaw \/ InitFmi \/ InitBoth \/ InitSchema \/ InitTz
                   \/ InitCols \/ InitFiles \/ InitEmpty \/ InitFaults
                   \/ InitScenario \/ InitPaths \/ InitDtypes \/ InitText)

\* ---------------------------------------------------------------- main
\* main(), line 334: the device aggregation runs when both tables were combined.
AfterFmi == IF args.geojson /\ args.parquet THEN "parse_dates" ELSE "done"

\* parse_args(), lines 44-46: a GeoJSON pair or a Parquet pair is required.
ArgsAccepted(a) == a.geojson \/ a.parquet

\* resample(freq): the cadence string is a frequency.
IsFrequency(a) == a > 0

\* main(), lines 312-328: parse the command line, which exits when no GeoJSON
\* and no Parquet pair is given; combine the GeoJSON files, then the Parquet files.
Main_Combine ==
  /\ pc = "main"
  /\ IF ArgsAccepted(args)
     THEN /\ written' = written \cup (IF args.geojson THEN {"geojson_out"} ELSE {})
                                \cup (IF args.parquet THEN {"parquet_out"} ELSE {})
          /\ pc' = IF args.fmi THEN "fmi_load" ELSE AfterFmi
          /\ UNCHANGED error
     ELSE /\ error' = "SystemExit"
          /\ pc' = "failed"
          /\ UNCHANGED written
  /\ UNCHANGED <<inputs, fname_agg, dev_locals, fmi_locals, i>>

\* ---------------------------------------------------------------- combine_fmi_data
\* FmiFilterRows with the station filter left out.
FmiFilterRows_EpochOnly(rows) ==
  LET Test(r) == r.time >= FmiEpoch IN SelectSeq(rows, Test)

\* Lines 261-264: the rows at or after the epoch of the stations kept.
FmiFilterRows(rows) ==
  LET Test(r) == r.time >= FmiEpoch /\ r.key \in stations_to_save
  IN SelectSeq(rows, Test)

\* Lines 252-271: concatenate the files, drop the rows before the epoch and the
\* rows of other stations, write the filtered table with the columns and the
\* dtypes it was read with.
Fmi_Load ==
  /\ pc = "fmi_load"
  /\ IF schema.Station
     THEN /\ fmi_df' = FmiFilterRows(Concat(fmi_in))
          /\ fmi_out' = fmi_df'
          /\ fmi_out_dtypes' = fmi_dtypes
          /\ written' = written \cup {"fmi_out"}
          /\ pc' = "fmi_resample"
          /\ UNCHANGED error
     ELSE /\ error' = "KeyError"
          /\ pc' = "failed"
          /\ UNCHANGED <<fmi_df, fmi_out, fmi_out_dtypes, written>>
  /\ i' = 0
  /\ UNCHANGED <<inputs, fname_agg, dev_locals, fmi_list, df_agg, fmi_agg>>

\* Lines 279-295: resample the rows of the next station of df; a cadence that
\* is not a frequency is a ValueError of resample().
Fmi_ResampleStation ==
  /\ pc = "fmi_resample"
  /\ i < Len(Unique(fmi_df, {}))
  /\ IF IsFrequency(args.aggregate)
     THEN /\ LET station == Unique(fmi_df, {})[i + 1]
                 station_resampled ==
                   ResampleStationRows(fmi_df, station, Metrics, args.aggregate,
                                       fmisid_numeric)
             IN fmi_list' = IF station_resampled # <<>>
                            THEN Append(fmi_list, station_resampled)
                            ELSE fmi_list
          /\ i' = i + 1
          /\ UNCHANGED <<pc, error>>
     ELSE /\ error' = "ValueError"
          /\ pc' = "failed"
          /\ UNCHANGED <<fmi_list, i>>
  /\ UNCHANGED <<inputs, fname_agg, dev_locals, fmi_df, df_agg, fmi_out, fmi_out_dtypes, fmi_agg, written>>

\* Lines 297-308: concatenate the stations' rows, sort them by timestamp and
\* write the result, empty or not.
Fmi_ConcatSort ==
  /\ pc = "fmi_resample"
  /\ i = Len(Unique(fmi_df, {}))
  /\ df_agg' \in SortIndex(Concat(fmi_list))
  /\ fmi_agg' = df_agg'
  /\ fname_agg' = [fname_agg EXCEPT !.fmi = AggPath(args.fmi_out, args.aggregate)]
  /\ written' = written \cup {"fmi_agg"}
  /\ pc' = AfterFmi
  /\ i' = 0
  /\ UNCHANGED <<inputs, dev_locals, fmi_df, fmi_list, fmi_out, fmi_out_dtypes, error>>

\* ---------------------------------------------------------------- save_aggregated_data
\* SchemaError that looks at the metadata table only.
SchemaError_IdOnly(s) == ~s.id

\* Lines 73-77: a required column is missing.
SchemaError(s) == ~s.dev_id \/ ~s.id

\* main(), line 335, and lines 72-116: derive the path of the aggregate; a
\* missing column is a KeyError; else the cutoff of every device with a
\* parseable install date.
ParseDates ==
  /\ pc = "parse_dates"
  /\ fname_agg' = [fname_agg EXCEPT !.main = AggPath(args.parquet_out, args.aggregate)]
  /\ IF SchemaError(schema)
     THEN /\ error' = "KeyError"
          /\ pc' = "failed"
          /\ UNCHANGED <<device_install_dates, cutoff_tz>>
     ELSE /\ device_install_dates' = ParseInstallDates(gdf, <<>>)
          /\ cutoff_tz' = ParseInstallTz(gdf, <<>>, index_tz)
          /\ pc' = "filter_devices"
          /\ UNCHANGED error
  /\ UNCHANGED <<inputs, fmi_locals, i, valid_device_ids, retained_pct, filtered_df,
                 aggregated_list, aggregated_df, parquet_agg, written>>

\* RetainedPct that cuts the digits after the first decimal.
RetainedPct_Floor(filtered_count, original_count) ==
  (1000 * filtered_count) \div original_count

\* f"{filtered_count / original_count * 100:.1f}": the percentage rounded to one
\* decimal, in tenths of a percent, a tie to the even digit.
RetainedPct(filtered_count, original_count) ==
  LET q == (1000 * filtered_count) \div original_count
      r == (1000 * filtered_count) % original_count
  IN IF 2 * r > original_count \/ (2 * r = original_count /\ q % 2 = 1)
     THEN q + 1 ELSE q

\* Lines 118-133: keep the rows of the devices of the metadata; the retained
\* fraction divides by the row count of df; an empty result is an error.
FilterDevices ==
  /\ pc = "filter_devices"
  /\ valid_device_ids' = {gdf[k].id : k \in 1..Len(gdf)}
  /\ IF Len(df) = 0
     THEN /\ error' = "ZeroDivisionError"
          /\ pc' = "failed"
          /\ filtered_df' = <<>>
          /\ UNCHANGED retained_pct
     ELSE /\ filtered_df' = FilterDevicesRows(df, valid_device_ids')
          /\ retained_pct' = RetainedPct(Len(filtered_df'), Len(df))
          /\ IF filtered_df' = <<>>
             THEN error' = "ValueError" /\ pc' = "failed"
             ELSE error' = error /\ pc' = "window"
  /\ i' = 0
  /\ UNCHANGED <<inputs, fname_agg, fmi_locals, device_install_dates, cutoff_tz, aggregated_list,
                 aggregated_df, parquet_agg, written>>

\* Lines 139-153: one pass of the window filter, for the next device with a
\* cutoff; a cutoff that does not compare with the index is a TypeError.
WindowPass ==
  /\ pc = "window"
  /\ i < Len(device_install_dates)
  /\ LET item == device_install_dates[i + 1]
     IN IF Comparable(DictGet(cutoff_tz, item.key), index_tz)
        THEN /\ filtered_df' = WindowPassRows(filtered_df, item.key, item.val)
             /\ i' = i + 1
             /\ UNCHANGED <<pc, error>>
        ELSE /\ error' = "TypeError"
             /\ pc' = "failed"
             /\ UNCHANGED <<filtered_df, i>>
  /\ UNCHANGED <<inputs, fname_agg, fmi_locals, device_install_dates, cutoff_tz, valid_device_ids, retained_pct,
                 aggregated_list, aggregated_df, parquet_agg, written>>

\* Lines 155-170: without a numeric column the filtered rows are the result.
SelectNumeric ==
  /\ pc = "window"
  /\ i = Len(device_install_dates)
  /\ IF columns = {}
     THEN aggregated_df' = filtered_df /\ pc' = "save"
     ELSE aggregated_df' = aggregated_df /\ pc' = "resample"
  /\ i' = 0
  /\ UNCHANGED <<inputs, fname_agg, fmi_locals, device_install_dates, cutoff_tz, valid_device_ids, retained_pct,
                 filtered_df, aggregated_list, parquet_agg, written, error>>

\* Lines 174-188: resample the rows of the next device of filtered_df.
ResampleDevice ==
  /\ pc = "resample"
  /\ i < Len(Unique(filtered_df, {}))
  /\ IF IsFrequency(args.aggregate)
     THEN /\ LET device_id == Unique(filtered_df, {})[i + 1]
                 device_resampled ==
                   ResampleDeviceRows(filtered_df, device_id, columns, args.aggregate)
             IN aggregated_list' = IF device_resampled # <<>>
                                   THEN Append(aggregated_list, device_resampled)
                                   ELSE aggregated_list
          /\ i' = i + 1
          /\ UNCHANGED <<pc, error>>
     ELSE /\ error' = "ValueError"
          /\ pc' = "failed"
          /\ UNCHANGED <<aggregated_list, i>>
  /\ UNCHANGED <<inputs, fname_agg, fmi_locals, device_install_dates, cutoff_tz, valid_device_ids, retained_pct,
                 filtered_df, aggregated_df, parquet_agg, written>>

\* Lines 190-196: concatenate the devices' rows and sort them by timestamp.
ConcatSort ==
  /\ pc = "resample"
  /\ i = Len(Unique(filtered_df, {}))
  /\ aggregated_df' \in SortIndex(Concat(aggregated_list))
  /\ pc' = "save"
  /\ UNCHANGED <<inputs, fname_agg, fmi_locals, i, device_install_dates, cutoff_tz, valid_device_ids, retained_pct,
                 filtered_df, aggregated_list, parquet_agg, written, error>>

\* Lines 205-208: the columns cast to float32.
Float32Columns == {"humidity", "temperature"}

\* The rows with the columns cols32 cast to float32.
AsFloat32(rows, cols32) ==
  [k \in 1..Len(rows) |->
     [rows[k] EXCEPT !.vals = [c \in DOMAIN rows[k].vals |->
                                 IF c \in cols32 THEN F32(ToFloat(rows[k].vals[c]))
                                 ELSE rows[k].vals[c]]]]

\* astype(CategoricalDtype(categories)): a value outside the categories becomes null.
AsCategorical(rows, categories) ==
  [k \in 1..Len(rows) |->
     [rows[k] EXCEPT !.key = IF rows[k].key \in Range(categories) THEN rows[k].key ELSE "NaN"]]

\* ShouldSave that lets an empty result through.
ShouldSave_Always(rows) == TRUE

\* Line 199: if not aggregated_df.empty
ShouldSave(rows) == rows # <<>>

\* The columns of rows besides the index and dev-id.
ValueColumns(rows) == UNION {DOMAIN rows[k].vals : k \in 1..Len(rows)}

\* Every cell of the columns cols32 can be cast to float32.
AllCastable(rows, cols32) ==
  \A k \in 1..Len(rows) :
    \A c \in DOMAIN rows[k].vals \cap cols32 : CanCast(rows[k].vals[c])

\* Lines 198-237: encode and write a non-empty result; write nothing otherwise.
\* A cast that raises ends the run before anything is written.
Save ==
  /\ pc = "save"
  /\ IF ShouldSave(aggregated_df) /\ ~AllCastable(aggregated_df, Float32Columns)
     THEN /\ error' = "ValueError"
          /\ pc' = "failed"
          /\ UNCHANGED <<parquet_agg, written>>
     ELSE /\ IF ShouldSave(aggregated_df)
             THEN LET categories == SortedKeys(valid_device_ids)
                  IN /\ parquet_agg' =
                          [rows |-> AsCategorical(AsFloat32(aggregated_df, Float32Columns),
                                                  categories),
                           dtypes |-> [c \in columns \cup ValueColumns(aggregated_df) |->
                                         IF c \in Float32Columns THEN "float32"
                                         ELSE IF c \in columns THEN "float64"
                                         ELSE "object"],
                           categories |-> categories,
                           ordered |-> FALSE]
                     /\ written' = written \cup {"parquet_agg"}
             ELSE UNCHANGED <<parquet_agg, written>>
          /\ pc' = "done"
          /\ UNCHANGED error
  /\ UNCHANGED <<inputs, fname_agg, fmi_locals, i, device_install_dates, cutoff_tz, valid_device_ids, retained_pct,
                 filtered_df, aggregated_list, aggregated_df>>

Next ==
  \/ Main_Combine
  \/ Fmi_Load
  \/ Fmi_ResampleStation
  \/ Fmi_ConcatSort
  \/ ParseDates
  \/ FilterDevices
  \/ WindowPass
  \/ SelectNumeric
  \/ ResampleDevice
  \/ ConcatSort
  \/ Save

Spec == Init /\ [][Next]_vars

\* ---------------------------------------------------------------- properties
\* The ids of the metadata table.
MetaIds == {gdf[k].id : k \in 1..Len(gdf)}

\* main() runs save_aggregated_data.
DeviceRun == args.geojson /\ args.parquet

\* The window filter of save_aggregated_data has ended.
PastWindow == DeviceRun /\ pc \in {"resample", "save", "done"}

\* aggregated_df of save_aggregated_data has its final value.
Aggregated == DeviceRun /\ pc \in {"save", "done"}

\* The resampling branch of save_aggregated_data has produced aggregated_df.
Resampled == Aggregated /\ columns # {}

\* combine_fmi_data has returned.
FmiDone == args.fmi /\ "fmi_agg" \in written

HasValue(r) == \E c \in DOMAIN r.vals : r.vals[c] # NaN

\* C1: every row of the aggregated device output, returned or persisted, carries
\* a device id of the metadata id set.
C1_DeviceIdsInMetadata ==
  /\ \A k \in 1..Len(aggregated_df) : aggregated_df[k].key \in MetaIds
  /\ \A k \in 1..Len(parquet_agg.rows) : parquet_agg.rows[k].key \in MetaIds

\* C1 witness: an artifact was written from a raw table that also holds rows of
\* a device the metadata does not know.
C1_Witness ==
  /\ pc = "done"
  /\ "parquet_agg" \in written
  /\ parquet_agg.rows # <<>>
  /\ \E k \in 1..Len(df) : df[k].key \notin MetaIds

\* C2: for a device with cutoff C, no reading before C reaches the aggregator and
\* no aggregated row of the device has a bucket end before C.
C2_NothingBeforeCutoff ==
  PastWindow =>
    \A n \in 1..Len(device_install_dates) :
      LET device_id == device_install_dates[n].key
          C == device_install_dates[n].val
      IN /\ \A k \in 1..Len(filtered_df) :
              filtered_df[k].key = device_id =>
                C # NaT /\ filtered_df[k].time >= C
         /\ \A k \in 1..Len(aggregated_df) :
              aggregated_df[k].key = device_id =>
                C # NaT /\ aggregated_df[k].time >= C
         /\ \A k \in 1..Len(parquet_agg.rows) :
              parquet_agg.rows[k].key = device_id =>
                C # NaT /\ parquet_agg.rows[k].time >= C

\* C2 witness: a device with a cutoff has readings before and after it, and rows
\* in the persisted result.
C2_Witness ==
  /\ pc = "done"
  /\ \E n \in 1..Len(device_install_dates) :
       LET device_id == device_install_dates[n].key
           C == device_install_dates[n].val
       IN /\ C # NaT
          /\ \E k \in 1..Len(df) : df[k].key = device_id /\ df[k].time < C
          /\ \E k \in 1..Len(df) : df[k].key = device_id /\ df[k].time >= C
          /\ \E k \in 1..Len(parquet_agg.rows) : parquet_agg.rows[k].key = device_id

\* The rows of the known devices that the window semantics keeps: the device has
\* no cutoff, or the row is at or after the cutoff of its device.
WindowKept(rows, dates) ==
  LET Test(r) == /\ r.key \in MetaIds
                 /\ \/ ~DictHas(dates, r.key)
                    \/ AtOrAfter(r.time, DictGet(dates, r.key))
  IN SelectSeq(rows, Test)

\* C3: the passes of the window filter, one per device with a cutoff, leave
\* exactly the rows whose device has no cutoff or that are at or after the
\* cutoff of their own device.
C3_PassesEqualPerDeviceFilter ==
  PastWindow => filtered_df = WindowKept(df, device_install_dates)

\* C3 witness: two devices share one cutoff instant, the second id of the raw
\* table is iterated first, and the passes removed some rows and kept others.
C3_Witness ==
  /\ PastWindow
  /\ Len(device_install_dates) = 2
  /\ device_install_dates[1].key = "B"
  /\ device_install_dates[1].val = device_install_dates[2].val
  /\ device_install_dates[1].val # NaT
  /\ filtered_df # <<>>
  /\ Len(filtered_df) < Len(df)

\* The values of column c of the rows of device k with lo <= time < hi.
ValuesIn(rows, k, c, lo, hi) ==
  LET Test(r) == r.key = k /\ lo <= r.time /\ r.time < hi
  IN NonNull(SelectSeq(rows, Test), c)

\* C4: a bucket labeled L of cadence w summarizes exactly the readings of its
\* device with L - w < t <= L, so a reading on a cadence boundary t belongs to
\* the bucket labeled t.
C4_BucketIsRightClosed ==
  Resampled =>
    /\ \A k \in 1..Len(aggregated_df) :
         LET o == aggregated_df[k]
         IN \A c \in columns :
              o.vals[c] = Mean(ValuesIn(filtered_df, o.key, c,
                                        o.time - args.aggregate + 1, o.time + 1))
    /\ \A k \in 1..Len(filtered_df) :
         LET r == filtered_df[k]
         IN (HasValue(r) /\ r.time % args.aggregate = 0 /\ TicksPerDay % args.aggregate = 0)
              => \E n \in 1..Len(aggregated_df) :
                   aggregated_df[n].key = r.key /\ aggregated_df[n].time = r.time

\* C5: the value of metric c in the aggregated row of device d and bucket b is
\* the mean of the non-null values of c over exactly the post-filter readings
\* of d in b, the bucket being the one the resampling cuts: [b - w, b).
C5_MeanOfOwnReadings ==
  Resampled =>
    \A k \in 1..Len(aggregated_df) :
      LET o == aggregated_df[k]
      IN \A c \in columns :
           o.vals[c] = Mean(ValuesIn(filtered_df, o.key, c, o.time - args.aggregate, o.time))

\* C5 witness: two readings 10 and 20 of one device in one bucket give a row
\* with the value 15, while another device has readings of 20 in the same bucket
\* and a row of its own.
C5_Witness ==
  /\ Resampled
  /\ pc = "done"
  /\ \E k, n \in 1..Len(parquet_agg.rows) :
       LET a == parquet_agg.rows[k]
           b == parquet_agg.rows[n]
       IN /\ a.key # b.key
          /\ a.time = b.time
          /\ a.vals.temperature = Rat(15, 1)
          /\ b.vals.temperature = Rat(20, 1)
          /\ \E x, y \in 1..Len(filtered_df) :
               /\ filtered_df[x].key = a.key
               /\ filtered_df[y].key = a.key
               /\ filtered_df[x].vals.temperature = Rat(10, 1)
               /\ filtered_df[y].vals.temperature = Rat(20, 1)
               /\ a.time - args.aggregate <= filtered_df[x].time
               /\ filtered_df[x].time < filtered_df[y].time
               /\ filtered_df[y].time < a.time

\* C6: aggregating the aggregated series again, at the same cadence, gives the
\* same rows.
C6_ReaggregationIsIdentity ==
  (Resampled /\ pc = "done") =>
    Range(AggregateAll(aggregated_df, columns, args.aggregate)) = Range(aggregated_df)

RECURSIVE SumSeq(_)
SumSeq(s) == IF s = <<>> THEN 0 ELSE Head(s) + SumSeq(Tail(s))

\* The sum, over the entities of keys, of the number of rows Agg gives for the
\* rows of that entity alone.
SumAlone(rows, keys, Agg(_)) ==
  SumSeq([k \in 1..Len(keys) |-> Len(Agg(RowsOf(rows, keys[k])))])

\* C7: the number of rows of the aggregation of several entities' readings is
\* the sum of the numbers of rows of the aggregation of each entity's readings
\* alone, in the device and in the station pipeline.
C7_RowCountIsSumOfEntities ==
  /\ Resampled =>
       LET Agg(rows) == AggregateAll(rows, columns, args.aggregate)
       IN Len(aggregated_df) = SumAlone(filtered_df, Unique(filtered_df, {}), Agg)
  /\ FmiDone =>
       LET Agg(rows) == AggregateFmiAll(rows, Metrics, args.aggregate, fmisid_numeric)
       IN Len(df_agg) = SumAlone(fmi_df, Unique(fmi_df, {}), Agg)

\* C7 witness: two devices with readings at different times, each with a row in
\* the result.
C7_Witness ==
  /\ Resampled
  /\ Len(filtered_df) = 2
  /\ filtered_df[1].key # filtered_df[2].key
  /\ filtered_df[1].time # filtered_df[2].time
  /\ Len(aggregated_df) = 2

\* The rows of each entity come with strictly increasing timestamps.
StrictlyIncreasingPerKey(rows) ==
  \A k, n \in 1..Len(rows) :
    (k < n /\ rows[k].key = rows[n].key) => rows[k].time < rows[n].time

\* C8 as stated: in every persisted result the timestamps of each device are
\* strictly increasing and lie on the boundaries of the cadence, also when the
\* input has no numeric metric column.
C8_IncreasingAndAligned ==
  ("parquet_agg" \in written) =>
    /\ StrictlyIncreasingPerKey(parquet_agg.rows)
    /\ \A k \in 1..Len(parquet_agg.rows) : parquet_agg.rows[k].time % args.aggregate = 0

\* C8 as amended: when the input has a numeric metric column, the timestamps of
\* each device in the persisted result are strictly increasing and lie on the
\* grid of the cadence that starts at midnight of the day of the first retained
\* reading of the device.
C8_IncreasingAndOnGrid ==
  ("parquet_agg" \in written /\ columns # {}) =>
    /\ StrictlyIncreasingPerKey(parquet_agg.rows)
    /\ \A k \in 1..Len(parquet_agg.rows) :
         LET o == parquet_agg.rows[k]
             origin == StartDay(FirstTime(RowsOf(filtered_df, o.key)))
         IN (o.time - origin) % args.aggregate = 0

\* C8 witness: a device has two rows in the persisted result, of readings that
\* are not on the grid.
C8_Witness ==
  /\ "parquet_agg" \in written
  /\ columns # {}
  /\ \E k \in 1..Len(filtered_df) : filtered_df[k].time % args.aggregate # 0
  /\ \E k, n \in 1..Len(parquet_agg.rows) :
       k < n /\ parquet_agg.rows[k].key = parquet_agg.rows[n].key

\* C9: a bucket is emitted iff a metric is non-null after averaging: no emitted
\* row has all metrics null, and every bucket that holds a reading with a
\* non-null metric is emitted.
C9_EmittedIffSomeMetric ==
  Resampled =>
    /\ \A k \in 1..Len(aggregated_df) : HasValue(aggregated_df[k])
    /\ \A k \in 1..Len(filtered_df) :
         LET r == filtered_df[k]
         IN HasValue(r) =>
              \E n \in 1..Len(aggregated_df) :
                LET o == aggregated_df[n]
                IN o.key = r.key /\ o.time - args.aggregate <= r.time /\ r.time < o.time

\* C9 witness: a row with one metric null and the other not is emitted, and a
\* bucket of the same device that holds only a reading without values is not.
C9_Witness ==
  /\ Resampled
  /\ pc = "done"
  /\ \E k \in 1..Len(parquet_agg.rows) :
       parquet_agg.rows[k].vals.humidity = NaN
  /\ \E k \in 1..Len(filtered_df) :
       /\ ~HasValue(filtered_df[k])
       /\ \A n \in 1..Len(aggregated_df) :
            ~(/\ aggregated_df[n].time - args.aggregate <= filtered_df[k].time
              /\ filtered_df[k].time < aggregated_df[n].time)

\* Ascending by timestamp, and by entity key among equal timestamps.
OrderedByTimeThenKey(rows) ==
  \A k \in 1..(Len(rows) - 1) :
    \/ rows[k].time < rows[k + 1].time
    \/ /\ rows[k].time = rows[k + 1].time
       /\ KeyRank[rows[k].key] <= KeyRank[rows[k + 1].key]

\* C10: the concatenated result of either pipeline is ordered ascending by
\* bucket timestamp, and by entity key among equal timestamps.
C10_OrderedByTimeThenKey ==
  /\ Resampled => OrderedByTimeThenKey(aggregated_df)
  /\ FmiDone => OrderedByTimeThenKey(df_agg)

\* The rows in the opposite order.
Reversed(rows) == [k \in 1..Len(rows) |-> rows[Len(rows) + 1 - k]]

\* C11: the aggregated row sequence does not depend on the order in which the
\* devices first appear in the input: a run on the same readings in the opposite
\* row order ends with the same row sequence.
C11_SameOutputInAnyRowOrder ==
  Resampled =>
    \A other \in SortIndex(AggregateAll(Reversed(filtered_df), columns, args.aggregate)) :
      other = aggregated_df

\* C12: whenever the raw table, of any size, has no row of a device of the
\* metadata, save_aggregated_data ends with the ValueError of line 133 and the
\* aggregated artifact is not written.
C12_NoMatchIsValueError ==
  (DeviceRun /\ pc \notin {"main", "fmi_load", "fmi_resample", "parse_dates", "filter_devices"}
     /\ FilterDevicesRows(df, MetaIds) = <<>>)
    => (pc = "failed" /\ error = "ValueError" /\ "parquet_agg" \notin written)

\* save_aggregated_data has got past the column checks of lines 73-77.
PastSchemaCheck ==
  DeviceRun /\ pc \notin {"main", "fmi_load", "fmi_resample", "parse_dates"}

\* C13: when the raw table lacks dev-id or the metadata table lacks id,
\* save_aggregated_data ends with a KeyError before it parses a date, filters,
\* aggregates or writes: its locals are untouched and no artifact is written.
C13_MissingColumnIsKeyError ==
  (PastSchemaCheck /\ (~schema.dev_id \/ ~schema.id)) =>
    /\ pc = "failed"
    /\ error = "KeyError"
    /\ device_install_dates = <<>>
    /\ cutoff_tz = <<>>
    /\ valid_device_ids = {}
    /\ filtered_df = <<>>
    /\ aggregated_list = <<>>
    /\ aggregated_df = <<>>
    /\ "parquet_agg" \notin written

\* C13 witness: a run on a non-empty raw table without dev-id, with metadata that
\* has id, has ended with the KeyError.
C13_Witness ==
  /\ pc = "failed"
  /\ error = "KeyError"
  /\ ~schema.dev_id
  /\ schema.id
  /\ df # <<>>

\* The date loop of save_aggregated_data has ended without a KeyError.
PastParse == PastSchemaCheck /\ error # "KeyError"

\* The metadata table with both date fields of record n null.
WithoutDate(rows, n) ==
  [k \in 1..Len(rows) |->
     IF k = n THEN [rows[k] EXCEPT !.Date_installed = NoDate, !.Asennettu_pvm = NoDate]
     ELSE rows[k]]

\* A date value that gives no timestamp: pd.to_datetime raises on it or returns NaT.
Unusable(install_date) == install_date.kind \in {"bad", "empty"}

\* C14: a record whose install date gives no usable cutoff is isolated: the
\* cutoffs of all devices are what they are without that record's date, and a
\* device that has only such records or dateless ones keeps all its readings.
C14_UnusableDateIsIsolated ==
  \A n \in 1..Len(gdf) :
    Unusable(InstallDate(gdf[n])) =>
      /\ PastParse =>
           device_install_dates = ParseInstallDates(WithoutDate(gdf, n), <<>>)
      /\ (/\ PastWindow
          /\ \A m \in 1..Len(gdf) :
               gdf[m].id = gdf[n].id => ~IsDate(InstallDate(gdf[m])))
           => RowsOf(filtered_df, gdf[n].id) = RowsOf(df, gdf[n].id)

\* The device has a cutoff instant.
HasCutoff(id) ==
  DictHas(device_install_dates, id) /\ DictGet(device_install_dates, id) # NaT

\* C15: for a device with one metadata record the cutoff comes from
\* Date_installed when that field is present, else from Asennettu_pvm, and the
\* device has no cutoff exactly when neither field holds a parseable date.
C15_PrimaryElseSecondary ==
  PastParse =>
    \A n \in 1..Len(gdf) :
      LET r == gdf[n]
          chosen == IF r.Date_installed # NoDate THEN r.Date_installed ELSE r.Asennettu_pvm
      IN (\A m \in 1..Len(gdf) : gdf[m].id = r.id => m = n) =>
           /\ ~HasCutoff(r.id) <=>
                (~IsDate(r.Date_installed) /\ ~IsDate(r.Asennettu_pvm))
           /\ HasCutoff(r.id) => DictGet(device_install_dates, r.id) = CutoffDate(chosen)

\* C16: for a device whose one metadata record has a parseable install date D,
\* the cutoff is the instant D + 1 day and carries the timezone of the raw
\* timestamps (UTC when the raw index is timezone-aware and D is naive), so that
\* it compares with the raw timestamps and the window filter never ends with a
\* TypeError.
C16_CutoffInRawTimezone ==
  /\ error # "TypeError"
  /\ PastParse =>
       \A n \in 1..Len(gdf) :
         LET r == gdf[n]
             D == InstallDate(r)
         IN (IsDate(D) /\ \A m \in 1..Len(gdf) : gdf[m].id = r.id => m = n) =>
              /\ DictGet(device_install_dates, r.id) =
                   (D.day + 1) * TicksPerDay - (IF D.kind = "date_tz" THEN TzOffset ELSE 0)
              /\ DictGet(cutoff_tz, r.id) =
                   (IF index_tz # "naive" /\ D.kind = "date" THEN "UTC" ELSE index_tz)
              /\ Comparable(DictGet(cutoff_tz, r.id), index_tz)

\* C17: in the persisted device artifact the device-id column is an unordered
\* categorical whose categories are the ids of the metadata, each once, in
\* ascending order, with or without rows; every persisted row carries one of them.
C17_CategoriesAreMetadataIds ==
  "parquet_agg" \in written =>
    LET categories == parquet_agg.categories
    IN /\ ~parquet_agg.ordered
       /\ Range(categories) = MetaIds
       /\ \A k \in 1..(Len(categories) - 1) :
            KeyRank[categories[k]] < KeyRank[categories[k + 1]]
       /\ \A k \in 1..Len(parquet_agg.rows) :
            parquet_agg.rows[k].key \in Range(categories)

\* C17 witness: an artifact is written whose categories are A and B while its
\* rows are all of A.
C17_Witness ==
  /\ "parquet_agg" \in written
  /\ parquet_agg.categories = <<"A", "B">>
  /\ parquet_agg.rows # <<>>
  /\ \A k \in 1..Len(parquet_agg.rows) : parquet_agg.rows[k].key = "A"

\* C18: in the persisted device artifact every floating-point metric column,
\* whatever its name, is stored as float32.
C18_EveryMetricIsFloat32 ==
  "parquet_agg" \in written =>
    \A c \in DOMAIN parquet_agg.dtypes : parquet_agg.dtypes[c] = "float32"

\* The rows are of the stations kept and at or after the epoch.
KeptStationsSinceEpoch(rows) ==
  \A k \in 1..Len(rows) :
    rows[k].key \in stations_to_save /\ rows[k].time >= FmiEpoch

\* C19: the filtered and the aggregated station artifact hold rows of the five
\* stations kept only, with timestamps at or after the epoch only, for any
\* number and order of input files.
C19_StationsAndEpoch ==
  /\ "fmi_out" \in written => KeptStationsSinceEpoch(fmi_out)
  /\ "fmi_agg" \in written => KeptStationsSinceEpoch(fmi_agg)

\* C19 witness: three files, with a row of another station and a row before the
\* epoch in the second and the third, gave two non-empty artifacts.
C19_Witness ==
  /\ FmiDone
  /\ Len(fmi_in) = 3
  /\ \E k \in 1..Len(fmi_in[2]) : fmi_in[2][k].key \notin stations_to_save
  /\ \E k \in 1..Len(fmi_in[3]) : fmi_in[3][k].time < FmiEpoch
  /\ fmi_out # <<>>
  /\ fmi_agg # <<>>

\* The rows of a station table as the device aggregator takes them.
AsDeviceRows(rows) ==
  [k \in 1..Len(rows) |-> [key |-> rows[k].key, time |-> rows[k].time, vals |-> rows[k].vals]]

\* The bucket timestamps of the rows of entity k that hold a value.
LabelsOf(rows, k) == {rows[n].time : n \in {m \in 1..Len(rows) : rows[m].key = k /\ HasValue(rows[m])}}

\* C20: the station pipeline labels every aggregated row with the right edge of
\* its bucket: for every station the bucket timestamps are those the device
\* aggregator gives for the same readings at the same cadence.
C20_StationLabelsAsDeviceLabels ==
  FmiDone =>
    \A s \in Range(Unique(fmi_df, {})) :
      LabelsOf(df_agg, s) =
        LabelsOf(ResampleDeviceRows(AsDeviceRows(fmi_df), s, Metrics, args.aggregate), s)

\* C21: the aggregated station artifact has no row whose weather metrics are
\* all null, whether the column fmisid is numeric or not.
C21_NoEmptyStationBucket ==
  FmiDone => \A k \in 1..Len(fmi_agg) : HasValue(fmi_agg[k])

\* C22: every row of the aggregated station artifact carries the name of a
\* station of the filtered table and, as fmisid, the fmisid of the first row of
\* that station in the filtered table.
C22_FirstFmisidOfStation ==
  FmiDone =>
    \A k \in 1..Len(fmi_agg) :
      LET o == fmi_agg[k]
      IN /\ o.key \in Range(Unique(fmi_df, {}))
         /\ o.fmisid = RowsOf(fmi_df, o.key)[1].fmisid

\* C22 witness: a station whose rows carry two different fmisid values has a row
\* in the aggregated artifact.
C22_Witness ==
  /\ FmiDone
  /\ \E k \in 1..Len(fmi_agg) :
       \E a, b \in 1..Len(fmi_df) :
         /\ fmi_df[a].key = fmi_agg[k].key
         /\ fmi_df[b].key = fmi_agg[k].key
         /\ fmi_df[a].fmisid # fmi_df[b].fmisid

\* C23: an aggregation without rows is not an error: the device pipeline ends
\* without an exception and without writing its artifact, the station pipeline
\* writes an empty aggregated artifact and returns.
C23_EmptyAggregationIsNotFatal ==
  /\ (Aggregated /\ aggregated_df = <<>>) =>
       /\ error = "none"
       /\ "parquet_agg" \notin written
  /\ (/\ "fmi_out" \in written
      /\ IsFrequency(args.aggregate)
      /\ pc # "fmi_resample"
      /\ fmi_list = <<>>) =>
       /\ "fmi_agg" \in written
       /\ fmi_agg = <<>>
       /\ ~DeviceRun => (pc = "done" /\ error = "none")

\* C23 witness: a run of both pipelines has ended, the station filters and the
\* window filter kept no row of non-empty inputs, and only the empty station
\* artifact was written of the two aggregates.
C23_Witness ==
  /\ pc = "done"
  /\ error = "none"
  /\ DeviceRun /\ args.fmi
  /\ df # <<>> /\ filtered_df = <<>> /\ aggregated_df = <<>>
  /\ Concat(fmi_in) # <<>> /\ fmi_df = <<>> /\ df_agg = <<>>
  /\ "fmi_agg" \in written
  /\ "parquet_agg" \notin written

\* C24: a run that an exception ends has written none of its output paths.
C24_FailedRunWroteNothing ==
  pc = "failed" => written = {}

\* The station pipeline was asked for and its files are sound.
StationInputsSound == args.fmi /\ schema.Station /\ IsFrequency(args.aggregate)

\* The device pipeline was asked for and its tables are sound.
DeviceInputsSound ==
  /\ DeviceRun
  /\ ~SchemaError(schema)
  /\ IsFrequency(args.aggregate)
  /\ index_tz = "UTC"
  /\ FilterDevicesRows(df, MetaIds) # <<>>

\* C25: the station pipeline and the device pipeline do not depend on each
\* other: at the end of a run the station artifacts exist whenever the station
\* files are sound, whatever the device inputs, and the device steps have run to
\* their end whenever the device tables are sound, whatever the station files.
C25_PipelinesIndependent ==
  pc \in {"done", "failed"} =>
    /\ StationInputsSound => {"fmi_out", "fmi_agg"} \subseteq written
    /\ DeviceInputsSound => (pc = "done" /\ error = "none")

\* The device filter of save_aggregated_data has printed the retained fraction.
PastFilter == PastParse /\ pc # "filter_devices" /\ df # <<>>

\* The raw table has readings of A, B and C and the metadata knows A and B.
ScenarioC ==
  /\ {df[k].key : k \in 1..Len(df)} = {"A", "B", "C"}
  /\ MetaIds = {"A", "B"}

\* The raw table has as many readings of one device as of every other.
SameCountPerDevice ==
  \A a, b \in {df[k].key : k \in 1..Len(df)} : Len(RowsOf(df, a)) = Len(RowsOf(df, b))

\* The rows of known devices only.
OnlyAB(rows) == \A k \in 1..Len(rows) : rows[k].key \in {"A", "B"}

\* C26: with raw readings of A, B and C and the metadata ids A and B, the
\* output has rows of A and B only and the retained fraction printed is 66.7%.
C26_TwoThirdsRetained ==
  (PastFilter /\ ScenarioC) =>
    /\ retained_pct = 667
    /\ OnlyAB(filtered_df) /\ OnlyAB(aggregated_df) /\ OnlyAB(parquet_agg.rows)

\* C26 amended: the same when A, B and C have the same number of readings; the
\* fraction is one of rows, not of ids.
C26_TwoThirdsOfRows ==
  (PastFilter /\ ScenarioC) =>
    /\ OnlyAB(filtered_df) /\ OnlyAB(aggregated_df) /\ OnlyAB(parquet_agg.rows)
    /\ SameCountPerDevice => retained_pct = 667

\* C26 witness: a run on one reading each of C, A and B has ended with rows of
\* A and of B in the artifact.
C26_Witness ==
  /\ pc = "done"
  /\ ScenarioC
  /\ Len(df) = 3
  /\ retained_pct = 667
  /\ {parquet_agg.rows[k].key : k \in 1..Len(parquet_agg.rows)} = {"A", "B"}

\* The path q is the path p with the cadence inserted between base name and
\* extension: the same directory, the same parts, "_" and the cadence at the end
\* of the last part before the extension, or of the only part.
IsCadencePath(q, p, cadence) ==
  LET n == Len(p.name)
      last == IF n > 1 THEN n - 1 ELSE n
  IN /\ q.parent = p.parent
     /\ Len(q.name) = n
     /\ \A k \in 1..n :
          /\ q.name[k].text = p.name[k].text
          /\ q.name[k].tag = IF k = last THEN Append(p.name[k].tag, cadence)
                             ELSE p.name[k].tag

\* C27: the aggregate of the device pipeline is written to the path of the raw
\* output with the cadence inserted between base name and extension, and the
\* aggregate of the station pipeline to the path of the station output with the
\* cadence inserted in the same way.
C27_CadenceInsertedInPath ==
  /\ "parquet_agg" \in written =>
       IsCadencePath(fname_agg.main, args.parquet_out, args.aggregate)
  /\ "fmi_agg" \in written =>
       IsCadencePath(fname_agg.fmi, args.fmi_out, args.aggregate)

\* C27 witness: both aggregates are written, the raw output path has two
\* extensions and the station output path has none.
C27_Witness ==
  /\ "parquet_agg" \in written
  /\ "fmi_agg" \in written
  /\ Len(args.parquet_out.name) = 3
  /\ Len(args.fmi_out.name) = 1

\* C28: in the filtered station artifact that combine_fmi_data writes, the
\* weather metric columns are float32.
C28_StationMetricsAreFloat32 ==
  "fmi_out" \in written =>
    \A c \in Metrics : fmi_out_dtypes[c] = "float32"

\* A valid reading of device d: it has a non-null metric value, and d has no
\* cutoff instant or the reading is at or after it.
ValidReadings(d) ==
  {k \in 1..Len(df) :
     /\ df[k].key = d
     /\ HasValue(df[k])
     /\ \/ ~HasCutoff(d)
        \/ df[k].time >= DictGet(device_install_dates, d)}

\* C29: when a run of the device pipeline on a table with numeric columns has
\* ended, every device of the metadata that has a valid reading has a row in
\* the result returned and in the artifact.
C29_NoKnownDeviceLost ==
  (DeviceRun /\ pc = "done" /\ columns # {}) =>
    \A d \in MetaIds :
      ValidReadings(d) # {} =>
        /\ \E k \in 1..Len(aggregated_df) : aggregated_df[k].key = d
        /\ "parquet_agg" \in written
        /\ \E k \in 1..Len(parquet_agg.rows) : parquet_agg.rows[k].key = d

\* The no-numeric branch of save_aggregated_data was taken on filtered rows
\* that are not empty, and the run has ended.
EndedWithoutNumeric ==
  /\ DeviceRun
  /\ columns = {}
  /\ filtered_df # <<>>
  /\ aggregated_df = filtered_df
  /\ pc \in {"done", "failed"}

\* C30: without a numeric column the run ends normally, and what it has written
\* is the filtered raw rows, one per reading with its timestamp and its cells as
\* they were, with only the device id encoded as a category.
C30_RawRowsWithOnlyIdEncoded ==
  EndedWithoutNumeric =>
    /\ pc = "done"
    /\ "parquet_agg" \in written
    /\ parquet_agg.rows = AsCategorical(filtered_df, SortedKeys(valid_device_ids))

====
